---- MODULE Spec2Model ----
(***************************************************************************)
(* Easy-Deploy: the deployment orchestrator (DeploymentManager.run) with   *)
(* its health verification, rollback-state capture and rollback, modelled  *)
(* as a state machine over one DeploymentManager instance that may be      *)
(* asked to run several times; the state detector (ConfigDetector.detect)  *)
(* over the project directory, the container daemon and the environment;   *)
(* and the artifact fetch step with its three providers.                   *)
(***************************************************************************)
EXTENDS Integers, Sequences, FiniteSets, TLC

(* ---------------------------------------------------------------------- *)
(* Bounds                                                                  *)
(* ---------------------------------------------------------------------- *)

\* number of run() calls made on the same DeploymentManager
MaxRuns == 2

\* number of detect() calls made on the same ConfigDetector
MaxDetects == 2

\* how often the config file is rewritten while detect() calls are running
MaxWrites == 1

\* how many confirmation dialogs the screen holds at most, and how often
\* the user retries the detection
MaxDialogs == 2

MaxRetries == 2

\* start() calls on one workflow, and auto-commits counted after a stop()
MaxStarts == 3

MaxLateCommits == 2

\* the serverPort question: its initial value and the limit its validate
\* function names
DefaultPort == 3000

MaxPort == 65535

(* ---------------------------------------------------------------------- *)
(* Inputs                                                                  *)
(* ---------------------------------------------------------------------- *)

\* HTTP statuses a health probe may be answered with
Statuses == {200, 204, 304, 401, 404, 499, 500, 503}

\* network failures of a probe (error.code of the rejected request)
ErrorCodes == {"ECONNREFUSED", "ETIMEDOUT"}

\* the result of one axios.get: a response with a status, or a network error
ProbeResults ==
    [kind : {"response"}, status : Statuses, code : {"none"}]
        \cup [kind : {"error"}, status : {0}, code : ErrorCodes]

NoProbe == [kind |-> "none", status |-> 0, code |-> "none"]

\* services of the project's compose file: the application, always started,
\* and the database service that sits behind the "postgres" profile
BaseServices == {"app"}
ProfileServices == {"postgres"}
Services == BaseServices \cup ProfileServices

\* the configurations the manager is constructed with
Configs == [autoCommit : BOOLEAN, database : {"sqlite", "postgresql"}]

\* revisions git.getCurrentCommit() may report ("none" is its null)
CommitHashes == {"none", "c1"}

(* ---------------------------------------------------------------------- *)
(* State                                                                   *)
(* ---------------------------------------------------------------------- *)

VARIABLES
    config,         \* this.config
    rollbackState,  \* this.rollbackState
    running,        \* the project's containers that are up
    pc,             \* position of run()
    inflight,       \* the step at pc has been called and has not settled
    runNo,          \* how many run() calls have been made on the manager
    began,          \* steps of the current run that were called, in order
    finished,       \* steps of the current run that settled, in order
    caught,         \* error caught by run()'s catch block, by failing step
    outcome,        \* how the current run() ended
    thrown,         \* the error run() rejected with
    rollbacks,      \* calls of rollback() in the current run
    stopCalls,      \* calls of docker.stopContainers() in the current run
    rollbackError,  \* the failure rollback() logged
    probes,         \* health requests issued in the current run
    sleeps,         \* waits made by verifyDeployment in the current run
    firstProbe,     \* result of the first health request
    retryProbe,     \* result of the retry request
    verified,       \* result of verifyDeployment
    preRunning,     \* containers that were up when run() was called
    captured        \* saveRollbackState() of the current run returned a state

VARIABLES
    cfgFile,        \* easy-deploy.config.js: absent, unloadable, or its value
    dockerUp,       \* the container daemon answers ping and list requests
    allContainers,  \* the containers the daemon knows (listContainers all)
    envFile,        \* the .env file exists
    envSet,         \* names of the variables set in process.env
    artifactsDir,   \* the artifacts directory: absent, readable, unreadable
    dbFile,         \* data/app.db exists
    pkgFile,        \* package.json exists in the base directory
    versions,       \* the values easy-deploy.config.js has held
    dstate,         \* this.state of the ConfigDetector
    dpc,            \* position of detect()
    checks,         \* the checks object detect() is filling
    dresult,        \* what the latest finished detect() returned
    dprev,          \* what the detect() before that returned
    detects,        \* how many detect() calls have been made
    envProbe,       \* what checkEnv() returned when applied on its own
    venv,           \* how validateEnvironment() ended when applied on its own
    fcfg,           \* the config fetchArtifact() creates its provider from
    fpc,            \* position of fetchArtifact()
    provider,       \* the provider instance createProvider() returned
    calls,          \* provider methods fetchArtifact() has called, in order
    fresult         \* how fetchArtifact() ended

VARIABLES
    shown,          \* screen.children: the boxes on the screen, oldest first
    uiState,        \* this.state of the SmartDashboard
    uiPc,           \* what the dashboard is doing
    retries,        \* how many times retryDetection() was called
    key,            \* the key pressed last
    hadDialog,      \* a confirmation dialog was open when it was pressed
    detected,       \* what the dashboard's latest detect() call gave
    lsource,        \* the source a LocalProvider's detectType() is given
    ltype,          \* what detectType() answered
    typed,          \* what the user typed at the wizard's port prompt
    port,           \* server.port of the config the wizard generated
    timer,          \* this.timer of the TalkingGitWorkflow
    timers,         \* interval timers that are set and not cleared
    started,        \* how many start() calls have been made
    ticking,        \* timers whose callback is awaiting status()
    halted,         \* stop() has returned and start() was not called since
    lateCommits     \* auto-commits begun while halted

deployVars == <<config, rollbackState, running, pc, inflight, runNo, began,
                finished, caught, outcome, thrown, rollbacks, stopCalls,
                rollbackError, probes, sleeps, firstProbe, retryProbe,
                verified, preRunning, captured>>

worldVars == <<cfgFile, dockerUp, allContainers, envFile, envSet, artifactsDir,
               dbFile, pkgFile, versions>>

detectVars == <<worldVars, dstate, dpc, checks, dresult, dprev, detects>>

envVars == <<envProbe, venv>>

fetchVars == <<fcfg, fpc, provider, calls, fresult>>

uiVars == <<shown, uiState, uiPc, retries, key, hadDialog, detected>>

localVars == <<lsource, ltype>>

wizardVars == <<typed, port>>

gitVars == <<timer, timers, started, ticking, halted, lateCommits>>

auxVars == <<uiVars, localVars, wizardVars, gitVars>>

vars == <<deployVars, detectVars, envVars, fetchVars, auxVars>>

\* null rollback state, as set by the constructor
NullState == [present |-> FALSE, containers |-> {}, commitHash |-> "none"]

\* run() with steps 6 and 7 exchanged: containers started before the capture
PipelineStartFirst ==
    << "validateEnvironment", "fetchArtifact", "initializeDatabase",
       "generateDockerFiles", "buildImage", "startContainers",
       "saveRollbackState", "verifyDeployment", "commit" >>

\* the steps of run() in the order the code lists them
Pipeline ==
    << "validateEnvironment", "fetchArtifact", "initializeDatabase",
       "generateDockerFiles", "buildImage", "saveRollbackState",
       "startContainers", "verifyDeployment", "commit" >>

StepNames == { Pipeline[i] : i \in 1..Len(Pipeline) }

StepIndex(step) == CHOOSE i \in 1..Len(Pipeline) : Pipeline[i] = step

\* where run() goes after a step that succeeded
NextPc(step) ==
    IF step = "verifyDeployment"
    THEN (IF config.autoCommit THEN "commit" ELSE "return")
    ELSE IF step = "commit" THEN "return"
    ELSE Pipeline[StepIndex(step) + 1]

(* ---------------------------------------------------------------------- *)
(* The project directory, the daemon and the environment                   *)
(* ---------------------------------------------------------------------- *)

\* the variables the code requires, in the order it lists them
EnvVarNames ==
    {"SESSION_SECRET", "GOOGLE_CLIENT_ID", "GOOGLE_CLIENT_SECRET",
     "DATABASE_URL"}

\* no config file, and a config file that `require` cannot load
AbsentConfig ==
    [status |-> "absent", oauth |-> FALSE, database |-> "sqlite",
     source |-> "unset", provider |-> "local"]

BrokenConfig ==
    [status |-> "broken", oauth |-> FALSE, database |-> "sqlite",
     source |-> "unset", provider |-> "local"]

\* config files that load: auth.google.enabled, database, and the source,
\* which is not set, names an existing path, or names a path that is missing
LoadedConfigs(providers) ==
    [status : {"loaded"}, oauth : BOOLEAN,
     database : {"sqlite", "postgresql"},
     source : {"unset", "exists", "missing"}, provider : providers]

\* what loadConfig() returns for a file that is absent or does not load
NullConfig ==
    [status |-> "null", oauth |-> FALSE, database |-> "sqlite",
     source |-> "unset", provider |-> "local"]

\* containers by what their name includes and whether they are up
ProjectUp == [name |-> "project", up |-> TRUE]
ProjectExited == [name |-> "project", up |-> FALSE]
EasyDeployUp == [name |-> "easy-deploy", up |-> TRUE]

ContainerKinds == {ProjectUp, ProjectExited, EasyDeployUp}

ArtifactDirs == {"absent", "dirs", "unreadable"}

\* this.state after the constructor, and the value of a call that threw
NoState == [type |-> "none"]
Threw == [type |-> "threw"]

\* the checks object before any probe has answered
NoChecks ==
    [configExists |-> FALSE, dockerRunning |-> FALSE,
     artifactsExist |-> [exists |-> FALSE, count |-> 0],
     deploymentRunning |-> FALSE,
     envValid |-> [exists |-> FALSE, valid |-> FALSE, missing |-> << >>],
     databaseExists |-> FALSE]

\* the detector is not part of the behaviour
DetectParked ==
    /\ cfgFile = AbsentConfig
    /\ dockerUp = FALSE
    /\ allContainers = {}
    /\ envFile = FALSE
    /\ envSet = {}
    /\ artifactsDir = "absent"
    /\ dbFile = FALSE
    /\ pkgFile = FALSE
    /\ versions = {AbsentConfig}
    /\ dstate = NoState
    /\ dpc = "off"
    /\ checks = NoChecks
    /\ dresult = NoState
    /\ dprev = NoState
    /\ detects = 0

\* checkEnv() and validateEnvironment() have not been applied
NoEnvProbe ==
    [applied |-> FALSE, exists |-> FALSE, valid |-> FALSE, missing |-> << >>]

NoVenv == [result |-> "none", error |-> "none", missing |-> << >>]

EnvParked == envProbe = NoEnvProbe /\ venv = NoVenv

NoProvider == [kind |-> "none", fetched |-> FALSE, hasPrepare |-> FALSE]

NoFetchConfig == [provider |-> "none", source |-> "none"]

NoFetchResult ==
    [result |-> "none", error |-> "none", path |-> "none", type |-> "none"]

FetchParked ==
    /\ fcfg = NoFetchConfig
    /\ fpc = "off"
    /\ provider = NoProvider
    /\ calls = << >>
    /\ fresult = NoFetchResult

\* no dashboard is part of the behaviour
UIParked ==
    /\ shown = << >>
    /\ uiState = NoState
    /\ uiPc = "off"
    /\ retries = 0
    /\ key = "none"
    /\ hadDialog = FALSE
    /\ detected = NoState

NoSource == [kind |-> "none"]

LocalParked == lsource = NoSource /\ ltype = "none"

\* nothing typed, and no config generated
NoTyped == [sign |-> "", hasDigits |-> FALSE, digits |-> 0, rest |-> ""]

NoPort == [written |-> FALSE, value |-> 0]

WizardParked == typed = NoTyped /\ port = NoPort

\* no workflow is part of the behaviour
GitParked ==
    /\ timer = 0
    /\ timers = {}
    /\ started = 0
    /\ ticking = {}
    /\ halted = FALSE
    /\ lateCommits = 0

AuxParked == UIParked /\ LocalParked /\ WizardParked /\ GitParked

\* no DeploymentManager is part of the behaviour
DeployParked ==
    /\ config = [autoCommit |-> FALSE, database |-> "sqlite"]
    /\ rollbackState = NullState
    /\ running = {}
    /\ pc = "off"
    /\ inflight = FALSE
    /\ runNo = 0
    /\ began = << >>
    /\ finished = << >>
    /\ caught = "none"
    /\ outcome = "none"
    /\ thrown = "none"
    /\ rollbacks = 0
    /\ stopCalls = 0
    /\ rollbackError = "none"
    /\ probes = 0
    /\ sleeps = 0
    /\ firstProbe = NoProbe
    /\ retryProbe = NoProbe
    /\ verified = "none"
    /\ preRunning = {}
    /\ captured = FALSE

(* ---------------------------------------------------------------------- *)
(* DeploymentManager                                                       *)
(* ---------------------------------------------------------------------- *)

Init ==
    /\ config \in Configs
    /\ rollbackState = NullState
    /\ running \in SUBSET Services
    /\ pc = "idle"
    /\ inflight = FALSE
    /\ runNo = 0
    /\ began = << >>
    /\ finished = << >>
    /\ caught = "none"
    /\ outcome = "none"
    /\ thrown = "none"
    /\ rollbacks = 0
    /\ stopCalls = 0
    /\ rollbackError = "none"
    /\ probes = 0
    /\ sleeps = 0
    /\ firstProbe = NoProbe
    /\ retryProbe = NoProbe
    /\ verified = "none"
    /\ preRunning = {}
    /\ captured = FALSE
    /\ DetectParked
    /\ EnvParked
    /\ FetchParked
    /\ AuxParked

(* ---------------------------------------------------------------------- *)
(* run(): entry                                                            *)
(* ---------------------------------------------------------------------- *)

\* run() is called on the manager; nothing of the manager is reset
RunBegin ==
    /\ pc \in {"idle", "done"}
    /\ runNo < MaxRuns
    /\ runNo' = runNo + 1
    /\ pc' = "validateEnvironment"
    /\ inflight' = FALSE
    /\ began' = << >>
    /\ finished' = << >>
    /\ caught' = "none"
    /\ outcome' = "none"
    /\ thrown' = "none"
    /\ rollbacks' = 0
    /\ stopCalls' = 0
    /\ rollbackError' = "none"
    /\ probes' = 0
    /\ sleeps' = 0
    /\ firstProbe' = NoProbe
    /\ retryProbe' = NoProbe
    /\ verified' = "none"
    /\ preRunning' = running
    /\ captured' = FALSE
    /\ UNCHANGED <<config, rollbackState, running>>
    /\ UNCHANGED <<detectVars, envVars, fetchVars>>
    /\ UNCHANGED auxVars

\* the step at pc is called: `await this.step()` starts it
StepCall ==
    /\ pc \in StepNames
    /\ ~inflight
    /\ inflight' = TRUE
    /\ began' = Append(began, pc)
    /\ UNCHANGED <<config, rollbackState, running, pc, runNo, finished, caught,
                   outcome, thrown, rollbacks, stopCalls, rollbackError, probes,
                   sleeps, firstProbe, retryProbe, verified, preRunning,
                   captured>>
    /\ UNCHANGED <<detectVars, envVars, fetchVars>>
    /\ UNCHANGED auxVars

\* the awaited step resolved: run() continues after it
StepResolves(step) ==
    /\ pc = step
    /\ inflight
    /\ inflight' = FALSE
    /\ finished' = Append(finished, step)
    /\ pc' = NextPc(step)
    /\ caught' = caught

\* the awaited step rejected: control goes to run()'s catch block
StepRejects(step) ==
    /\ pc = step
    /\ inflight
    /\ inflight' = FALSE
    /\ finished' = Append(finished, step)
    /\ pc' = "catch"
    /\ caught' = step

(* ---------------------------------------------------------------------- *)
(* run(): steps 1-5                                                        *)
(* ---------------------------------------------------------------------- *)

\* Step 1: checkDocker, required variables and source path pass, or throw
ValidateEnvironment ==
    /\ \E ok \in BOOLEAN :
          IF ok THEN StepResolves("validateEnvironment")
                ELSE StepRejects("validateEnvironment")
    /\ UNCHANGED <<config, rollbackState, running, runNo, began, outcome,
                   thrown, rollbacks, stopCalls, rollbackError, probes, sleeps,
                   firstProbe, retryProbe, verified, preRunning, captured>>
    /\ UNCHANGED <<detectVars, envVars, fetchVars>>
    /\ UNCHANGED auxVars

\* Step 2: createProvider, validate, fetch, prepare succeed, or one throws
FetchArtifact ==
    /\ \E ok \in BOOLEAN :
          IF ok THEN StepResolves("fetchArtifact")
                ELSE StepRejects("fetchArtifact")
    /\ UNCHANGED <<config, rollbackState, running, runNo, began, outcome,
                   thrown, rollbacks, stopCalls, rollbackError, probes, sleeps,
                   firstProbe, retryProbe, verified, preRunning, captured>>
    /\ UNCHANGED <<detectVars, envVars, fetchVars>>
    /\ UNCHANGED auxVars

\* Step 3: database.initialize()
InitializeDatabase ==
    /\ \E ok \in BOOLEAN :
          IF ok THEN StepResolves("initializeDatabase")
                ELSE StepRejects("initializeDatabase")
    /\ UNCHANGED <<config, rollbackState, running, runNo, began, outcome,
                   thrown, rollbacks, stopCalls, rollbackError, probes, sleeps,
                   firstProbe, retryProbe, verified, preRunning, captured>>
    /\ UNCHANGED <<detectVars, envVars, fetchVars>>
    /\ UNCHANGED auxVars

\* Step 4: generateDockerfile then generateComposeFile
GenerateDockerFiles ==
    /\ \E ok \in BOOLEAN :
          IF ok THEN StepResolves("generateDockerFiles")
                ELSE StepRejects("generateDockerFiles")
    /\ UNCHANGED <<config, rollbackState, running, runNo, began, outcome,
                   thrown, rollbacks, stopCalls, rollbackError, probes, sleeps,
                   firstProbe, retryProbe, verified, preRunning, captured>>
    /\ UNCHANGED <<detectVars, envVars, fetchVars>>
    /\ UNCHANGED auxVars

\* Step 5: docker.buildImage; no container is touched by a build
BuildImage ==
    /\ \E ok \in BOOLEAN :
          IF ok THEN StepResolves("buildImage")
                ELSE StepRejects("buildImage")
    /\ UNCHANGED <<config, rollbackState, running, runNo, began, outcome,
                   thrown, rollbacks, stopCalls, rollbackError, probes, sleeps,
                   firstProbe, retryProbe, verified, preRunning, captured>>
    /\ UNCHANGED <<detectVars, envVars, fetchVars>>
    /\ UNCHANGED auxVars

(* ---------------------------------------------------------------------- *)
(* run(): step 6, saveRollbackState                                        *)
(* ---------------------------------------------------------------------- *)

\* the object saveRollbackState returns when the status listing succeeded
CapturedState(containers, hash) ==
    [present |-> TRUE, containers |-> containers, commitHash |-> hash]

\* a capture whose failure leaves the state of an earlier capture in place
CaptureFailureKeepsPrevious(previous) == previous

\* what saveRollbackState returns when getContainerStatus throws
CaptureFailure(previous) == NullState

\* Step 6: the result is assigned to this.rollbackState whatever it is;
\* saveRollbackState catches its own failure, so the step never rejects
SaveRollbackState ==
    /\ StepResolves("saveRollbackState")
    /\ \E statusOk \in BOOLEAN, hash \in CommitHashes :
          /\ rollbackState' = IF statusOk THEN CapturedState(running, hash)
                                          ELSE CaptureFailure(rollbackState)
          /\ captured' = statusOk
    /\ UNCHANGED <<config, running, runNo, began, outcome, thrown, rollbacks,
                   stopCalls, rollbackError, probes, sleeps, firstProbe,
                   retryProbe, verified, preRunning>>
    /\ UNCHANGED <<detectVars, envVars, fetchVars>>
    /\ UNCHANGED auxVars

(* ---------------------------------------------------------------------- *)
(* run(): step 7, docker.startContainers                                   *)
(* ---------------------------------------------------------------------- *)

\* getActiveProfiles: the postgres profile is active for a postgresql config
ActiveServices(cfg) ==
    BaseServices \cup (IF cfg.database = "postgresql" THEN ProfileServices ELSE {})

\* Step 7: `docker-compose up -d` brings the active services up; when it
\* fails, any part of them may have come up before the failure
StartContainers ==
    /\ \/ /\ StepResolves("startContainers")
          /\ running' = running \cup ActiveServices(config)
       \/ /\ StepRejects("startContainers")
          /\ \E part \in SUBSET ActiveServices(config) :
                running' = running \cup part
    /\ UNCHANGED <<config, rollbackState, runNo, began, outcome, thrown,
                   rollbacks, stopCalls, rollbackError, probes, sleeps,
                   firstProbe, retryProbe, verified, preRunning, captured>>
    /\ UNCHANGED <<detectVars, envVars, fetchVars>>
    /\ UNCHANGED auxVars

(* ---------------------------------------------------------------------- *)
(* run(): step 8, verifyDeployment                                         *)
(* ---------------------------------------------------------------------- *)

\* a classification whose comparison lets status 500 through
FirstProbeClassInclusive(r) ==
    IF r.kind = "response"
    THEN IF r.status = 200 THEN "ok"
         ELSE IF r.status <= 500 THEN "ok"
         ELSE "fatal"
    ELSE IF r.code = "ECONNREFUSED" THEN "retry"
         ELSE "fatal"

\* the first request is made with validateStatus: () => true, so every
\* response resolves; 200 and every status below 500 return true, any other
\* status throws an Error that has neither a response nor a code, which the
\* catch block rethrows; a network error is retried only for ECONNREFUSED
FirstProbeClass(r) ==
    IF r.kind = "response"
    THEN IF r.status = 200 THEN "ok"
         ELSE IF r.status < 500 THEN "ok"
         ELSE "fatal"
    ELSE IF r.code = "ECONNREFUSED" THEN "retry"
         ELSE "fatal"

\* the retry request passes no validateStatus: the client's default resolves
\* statuses 200..299 only and rejects every other response
DefaultValidateStatus(status) == status >= 200 /\ status < 300

\* the retry returns true when the request resolves; whatever rejects it is
\* replaced by "Containers started but application is not responding"
RetryProbeClass(r) ==
    IF r.kind = "response" /\ DefaultValidateStatus(r.status) THEN "ok"
    ELSE "fatal"

\* sleep(5000), then the request to /health
VerifyFirstProbe ==
    /\ pc = "verifyDeployment"
    /\ inflight
    /\ firstProbe = NoProbe
    /\ sleeps' = sleeps + 1
    /\ probes' = probes + 1
    /\ \E r \in ProbeResults :
          /\ firstProbe' = r
          /\ CASE FirstProbeClass(r) = "ok" ->
                    /\ StepResolves("verifyDeployment")
                    /\ verified' = "ok"
               [] FirstProbeClass(r) = "fatal" ->
                    /\ StepRejects("verifyDeployment")
                    /\ verified' = "fatal"
               [] OTHER ->
                    UNCHANGED <<pc, inflight, finished, caught, verified>>
    /\ UNCHANGED <<config, rollbackState, running, runNo, began, outcome,
                   thrown, rollbacks, stopCalls, rollbackError, retryProbe,
                   preRunning, captured>>
    /\ UNCHANGED <<detectVars, envVars, fetchVars>>
    /\ UNCHANGED auxVars

\* after a refused connection: sleep(5000), then one request to the root URL
VerifyRetryProbe ==
    /\ pc = "verifyDeployment"
    /\ inflight
    /\ firstProbe # NoProbe
    /\ FirstProbeClass(firstProbe) = "retry"
    /\ retryProbe = NoProbe
    /\ sleeps' = sleeps + 1
    /\ probes' = probes + 1
    /\ \E r \in ProbeResults :
          /\ retryProbe' = r
          /\ IF RetryProbeClass(r) = "ok"
             THEN /\ StepResolves("verifyDeployment")
                  /\ verified' = "ok"
             ELSE /\ StepRejects("verifyDeployment")
                  /\ verified' = "fatal"
    /\ UNCHANGED <<config, rollbackState, running, runNo, began, outcome,
                   thrown, rollbacks, stopCalls, rollbackError, firstProbe,
                   preRunning, captured>>
    /\ UNCHANGED <<detectVars, envVars, fetchVars>>
    /\ UNCHANGED auxVars

(* ---------------------------------------------------------------------- *)
(* run(): step 9, git.commit, and the successful return                    *)
(* ---------------------------------------------------------------------- *)

\* Step 9, reached only with features.autoCommit: git.commit returns (a
\* commit was made, or there was nothing to commit) or throws "Commit failed"
\* from inside run()'s try block
GitCommit ==
    /\ \E ok \in BOOLEAN :
          IF ok THEN StepResolves("commit") ELSE StepRejects("commit")
    /\ UNCHANGED <<config, rollbackState, running, runNo, began, outcome,
                   thrown, rollbacks, stopCalls, rollbackError, probes, sleeps,
                   firstProbe, retryProbe, verified, preRunning, captured>>
    /\ UNCHANGED <<detectVars, envVars, fetchVars>>
    /\ UNCHANGED auxVars

\* return { success: true, artifact, url }
ReturnSuccess ==
    /\ pc = "return"
    /\ outcome' = "success"
    /\ pc' = "done"
    /\ UNCHANGED <<config, rollbackState, running, inflight, runNo, began,
                   finished, caught, thrown, rollbacks, stopCalls,
                   rollbackError, probes, sleeps, firstProbe, retryProbe,
                   verified, preRunning, captured>>
    /\ UNCHANGED <<detectVars, envVars, fetchVars>>
    /\ UNCHANGED auxVars

(* ---------------------------------------------------------------------- *)
(* run(): the catch block and rollback()                                   *)
(* ---------------------------------------------------------------------- *)

\* if (this.rollbackState): an object is truthy, null is not
ShouldRollback(rs) == rs.present

\* rollback(): stopContainers runs `docker-compose down`. When it succeeds
\* the services outside any profile are down, and those behind a profile are
\* down or left up (the command names no profile); when it fails any part of
\* the containers may already be down, and rollback() logs the failure and
\* returns normally
Rollback ==
    /\ pc = "catch"
    /\ ShouldRollback(rollbackState)
    /\ rollbacks' = rollbacks + 1
    /\ stopCalls' = stopCalls + 1
    /\ \/ /\ \E stopped \in SUBSET running :
                /\ (running \cap BaseServices) \subseteq stopped
                /\ running' = running \ stopped
          /\ rollbackError' = "none"
       \/ /\ \E stopped \in SUBSET running : running' = running \ stopped
          /\ rollbackError' = "stopContainers"
    /\ pc' = "rethrow"
    /\ UNCHANGED <<config, rollbackState, inflight, runNo, began, finished,
                   caught, outcome, thrown, probes, sleeps, firstProbe,
                   retryProbe, verified, preRunning, captured>>
    /\ UNCHANGED <<detectVars, envVars, fetchVars>>
    /\ UNCHANGED auxVars

\* the catch block with a null this.rollbackState
NoRollback ==
    /\ pc = "catch"
    /\ ~ShouldRollback(rollbackState)
    /\ pc' = "rethrow"
    /\ UNCHANGED <<config, rollbackState, running, inflight, runNo, began,
                   finished, caught, outcome, thrown, rollbacks, stopCalls,
                   rollbackError, probes, sleeps, firstProbe, retryProbe,
                   verified, preRunning, captured>>
    /\ UNCHANGED <<detectVars, envVars, fetchVars>>
    /\ UNCHANGED auxVars

\* a rollback() that does not catch: its failure leaves the catch block
RethrownErrorLastWins(original, rollbackFailure) ==
    IF rollbackFailure # "none" THEN rollbackFailure ELSE original

\* the error run() rejects with: `throw error` names the caught error, and
\* rollback() has swallowed its own
RethrownError(original, rollbackFailure) == original

\* throw error
Rethrow ==
    /\ pc = "rethrow"
    /\ thrown' = RethrownError(caught, rollbackError)
    /\ outcome' = "threw"
    /\ pc' = "done"
    /\ UNCHANGED <<config, rollbackState, running, inflight, runNo, began,
                   finished, caught, rollbacks, stopCalls, rollbackError,
                   probes, sleeps, firstProbe, retryProbe, verified,
                   preRunning, captured>>
    /\ UNCHANGED <<detectVars, envVars, fetchVars>>
    /\ UNCHANGED auxVars

Next ==
    \/ RunBegin
    \/ StepCall
    \/ ValidateEnvironment
    \/ FetchArtifact
    \/ InitializeDatabase
    \/ GenerateDockerFiles
    \/ BuildImage
    \/ SaveRollbackState
    \/ StartContainers
    \/ VerifyFirstProbe
    \/ VerifyRetryProbe
    \/ GitCommit
    \/ ReturnSuccess
    \/ Rollback
    \/ NoRollback
    \/ Rethrow

Spec == Init /\ [][Next]_vars

TypeOK ==
    /\ config \in Configs
    /\ rollbackState \in [present : BOOLEAN, containers : SUBSET Services,
                          commitHash : CommitHashes]
    /\ running \subseteq Services
    /\ pc \in StepNames \cup {"idle", "return", "catch", "rethrow", "done"}
    /\ inflight \in BOOLEAN
    /\ runNo \in 0..MaxRuns
    /\ caught \in StepNames \cup {"none"}
    /\ outcome \in {"none", "success", "threw"}
    /\ verified \in {"none", "ok", "fatal"}

(* ---------------------------------------------------------------------- *)
(* ConfigDetector: the probes                                              *)
(* ---------------------------------------------------------------------- *)

\* loadConfig(): the required file, or null when it is absent or throws
LoadConfig(file) == IF file.status = "loaded" THEN file ELSE NullConfig

\* checkConfig(): fs.pathExists of the config file
CheckConfig(file) == file.status # "absent"

\* a checkDocker() that does not await the ping: the rejection is not caught
\* and the probe answers true whatever the daemon does
CheckDockerAlways(up) == TRUE

\* checkDocker(): ping, with every failure caught
CheckDocker(up) == up

\* checkArtifacts() has no try/catch: readdir and stat throw on a path that
\* exists and cannot be listed (a plain file, a dangling link, no permission)
CheckArtifactsThrows(dir) == dir = "unreadable"

CheckArtifacts(dir) ==
    IF dir = "absent" THEN [exists |-> FALSE, count |-> 0]
                      ELSE [exists |-> TRUE, count |-> 1]

\* the name filter of checkDeployment: config.name or 'easy-deploy'
MatchesDeployment(c) == c.name = "project" \/ c.name = "easy-deploy"

\* checkDeployment(): listContainers({all: true}) throws without a daemon,
\* then a null config returns false, then the filter
CheckDeployment(file, up, cs) ==
    IF ~up THEN FALSE
    ELSE IF LoadConfig(file).status = "null" THEN FALSE
    ELSE \E c \in cs : MatchesDeployment(c)

\* the variables checkEnv() requires for a config, in its order
RequiredEnv(cfg) ==
    << "SESSION_SECRET" >>
        \o (IF cfg.oauth THEN << "GOOGLE_CLIENT_ID", "GOOGLE_CLIENT_SECRET" >>
                         ELSE << >>)
        \o (IF cfg.database = "postgresql" THEN << "DATABASE_URL" >>
                                           ELSE << >>)

\* required.filter(key => !process.env[key])
MissingOf(required, env) ==
    LET unset(k) == k \notin env IN SelectSeq(required, unset)

\* checkEnv()
CheckEnv(file, hasEnvFile, env) ==
    IF ~hasEnvFile
    THEN [exists |-> FALSE, valid |-> FALSE, missing |-> << >>]
    ELSE IF LoadConfig(file).status = "null"
    THEN [exists |-> TRUE, valid |-> TRUE, missing |-> << >>]
    ELSE LET missing == MissingOf(RequiredEnv(LoadConfig(file)), env)
         IN  [exists |-> TRUE, valid |-> (Len(missing) = 0),
              missing |-> missing]

\* checkDatabase()
CheckDatabase(file, db, env) ==
    LET cfg == LoadConfig(file) IN
    IF cfg.status = "null" THEN FALSE
    ELSE IF cfg.database = "sqlite" THEN db
    ELSE IF cfg.database = "postgresql" THEN "DATABASE_URL" \in env
    ELSE FALSE

\* getFirstLaunchSuggestions(): readdir and stat are not guarded here either
SuggestionsThrow(dir) == dir = "unreadable"

FirstLaunchSuggestions(pkg, dir) ==
    (IF pkg THEN << "nodejs-project" >> ELSE << >>)
        \o (IF dir = "dirs" THEN << "artifacts-found" >> ELSE << >>)

NullDeployment == [present |-> FALSE, containerCount |-> 0]

\* getDeploymentInfo(): listContainers() lists the containers that are up,
\* the filter is config.name alone, and every failure returns null
DeploymentInfo(file, up, cs) ==
    IF ~up \/ LoadConfig(file).status = "null" THEN NullDeployment
    ELSE [present |-> TRUE,
          containerCount |->
              Cardinality({c \in cs : c.up /\ c.name = "project"})]

(* ---------------------------------------------------------------------- *)
(* ConfigDetector: classification, errors and fixes                        *)
(* ---------------------------------------------------------------------- *)

FirstLaunchState(chk, suggestions) ==
    [type |-> "first-launch", checks |-> chk,
     message |-> "No configuration found. Starting setup...",
     suggestions |-> suggestions]

ConfiguredState(chk, cfg) ==
    [type |-> "configured-not-deployed", checks |-> chk,
     message |-> "Configuration found but not deployed", config |-> cfg]

RunningState(chk, cfg, deployment) ==
    [type |-> "running", checks |-> chk, message |-> "Deployment is running",
     config |-> cfg, deployment |-> deployment]

\* the branch detect() takes on the collected checks
BaseBranch(chk) ==
    IF ~chk.configExists THEN "first-launch"
    ELSE IF chk.configExists /\ ~chk.deploymentRunning
    THEN "configured-not-deployed"
    ELSE IF chk.deploymentRunning THEN "running"
    ELSE "none"

DockerError ==
    [type |-> "docker-not-running", severity |-> "critical", missing |-> << >>]

EnvError(missing) ==
    [type |-> "missing-env-vars", severity |-> "high", missing |-> missing]

SourceError ==
    [type |-> "source-not-found", severity |-> "high", missing |-> << >>]

\* detectErrors with the source check moved before the environment check
DetectErrorsSourceFirst(chk, file) ==
    (IF ~chk.dockerRunning THEN << DockerError >> ELSE << >>)
        \o (IF LoadConfig(file).status # "null"
               /\ LoadConfig(file).source = "missing"
            THEN << SourceError >> ELSE << >>)
        \o (IF ~chk.envValid.valid /\ Len(chk.envValid.missing) > 0
            THEN << EnvError(chk.envValid.missing) >> ELSE << >>)

\* detectErrors(checks): the three conditions in the order of the code
DetectErrors(chk, file) ==
    (IF ~chk.dockerRunning THEN << DockerError >> ELSE << >>)
        \o (IF ~chk.envValid.valid /\ Len(chk.envValid.missing) > 0
            THEN << EnvError(chk.envValid.missing) >> ELSE << >>)
        \o (IF LoadConfig(file).status # "null"
               /\ LoadConfig(file).source = "missing"
            THEN << SourceError >> ELSE << >>)

\* a switch whose docker case is marked auto-fixable like the other two
FixForAllAuto(error) ==
    IF error.type = "docker-not-running"
    THEN << [error |-> error.type, action |-> "start-docker",
             autoFixable |-> TRUE] >>
    ELSE IF error.type = "missing-env-vars"
    THEN << [error |-> error.type, action |-> "update-env",
             autoFixable |-> TRUE] >>
    ELSE IF error.type = "source-not-found"
    THEN << [error |-> error.type, action |-> "update-source",
             autoFixable |-> TRUE] >>
    ELSE << >>

\* one case of the switch in suggestFixes
FixFor(error) ==
    IF error.type = "docker-not-running"
    THEN << [error |-> error.type, action |-> "start-docker",
             autoFixable |-> FALSE] >>
    ELSE IF error.type = "missing-env-vars"
    THEN << [error |-> error.type, action |-> "update-env",
             autoFixable |-> TRUE] >>
    ELSE IF error.type = "source-not-found"
    THEN << [error |-> error.type, action |-> "update-source",
             autoFixable |-> TRUE] >>
    ELSE << >>

\* suggestFixes(errors): the loop over the errors
RECURSIVE SuggestFixes(_)
SuggestFixes(errors) ==
    IF errors = << >> THEN << >>
    ELSE FixFor(Head(errors)) \o SuggestFixes(Tail(errors))

\* an overlay that builds a new error object and drops what the branch built
ErrorOverlayFresh(state, errors, fixes) ==
    [type |-> "error", checks |-> state.checks, errors |-> errors,
     fixes |-> fixes]

\* this.state.type = 'error', this.state.errors = ..., this.state.fixes = ...
\* on the object the branch built: its other fields stay
ErrorOverlay(state, errors, fixes) ==
    [f \in DOMAIN state \cup {"errors", "fixes"} |->
        IF f = "type" THEN "error"
        ELSE IF f = "errors" THEN errors
        ELSE IF f = "fixes" THEN fixes
        ELSE state[f]]

\* a detect() that appends to the errors left in this.state by the last call
FinalStateAccumulates(previous, base, errors) ==
    LET old == IF "errors" \in DOMAIN previous THEN previous.errors ELSE << >>
        all == old \o errors
    IN  IF Len(all) > 0 THEN ErrorOverlay(base, all, SuggestFixes(all))
        ELSE base

\* the object detect() leaves in this.state and returns; the state left by
\* an earlier call is not read
FinalState(previous, base, errors) ==
    IF Len(errors) > 0 THEN ErrorOverlay(base, errors, SuggestFixes(errors))
    ELSE base

(* ---------------------------------------------------------------------- *)
(* ConfigDetector.detect()                                                 *)
(* ---------------------------------------------------------------------- *)

\* a detector on any project directory; a fact that no probe reads in a
\* directory (the containers without a daemon or a loadable config, the
\* variables without a .env file, package.json beside a config) is fixed
InitDetect ==
    /\ cfgFile \in {AbsentConfig, BrokenConfig} \cup LoadedConfigs({"local"})
    /\ dockerUp \in BOOLEAN
    /\ allContainers \in
          IF dockerUp /\ cfgFile.status = "loaded"
          THEN SUBSET ContainerKinds ELSE {{}}
    /\ envFile \in BOOLEAN
    /\ envSet \in
          IF envFile /\ cfgFile.status = "loaded"
          THEN SUBSET EnvVarNames ELSE {{}}
    /\ artifactsDir \in ArtifactDirs
    /\ dbFile \in
          IF cfgFile.status = "loaded" /\ cfgFile.database = "sqlite"
          THEN BOOLEAN ELSE {FALSE}
    /\ pkgFile \in IF cfgFile.status = "absent" THEN BOOLEAN ELSE {FALSE}
    /\ versions = {cfgFile}
    /\ dstate = NoState
    /\ dpc = "idle"
    /\ checks = NoChecks
    /\ dresult = NoState
    /\ dprev = NoState
    /\ detects = 0
    /\ DeployParked
    /\ EnvParked
    /\ FetchParked
    /\ AuxParked

\* detect() is called
DetectBegin ==
    /\ dpc = "idle"
    /\ detects < MaxDetects
    /\ detects' = detects + 1
    /\ dpc' = "checkConfig"
    /\ checks' = NoChecks
    /\ UNCHANGED <<worldVars, dstate, dresult, dprev>>
    /\ UNCHANGED <<deployVars, envVars, fetchVars>>
    /\ UNCHANGED auxVars

DetectCheckConfig ==
    /\ dpc = "checkConfig"
    /\ checks' = [checks EXCEPT !.configExists = CheckConfig(cfgFile)]
    /\ dpc' = "checkDocker"
    /\ UNCHANGED <<worldVars, dstate, dresult, dprev, detects>>
    /\ UNCHANGED <<deployVars, envVars, fetchVars>>
    /\ UNCHANGED auxVars

DetectCheckDocker ==
    /\ dpc = "checkDocker"
    /\ checks' = [checks EXCEPT !.dockerRunning = CheckDocker(dockerUp)]
    /\ dpc' = "checkArtifacts"
    /\ UNCHANGED <<worldVars, dstate, dresult, dprev, detects>>
    /\ UNCHANGED <<deployVars, envVars, fetchVars>>
    /\ UNCHANGED auxVars

\* checkArtifacts() answers, or its exception leaves detect()
DetectCheckArtifacts ==
    /\ dpc = "checkArtifacts"
    /\ IF CheckArtifactsThrows(artifactsDir)
       THEN /\ dpc' = "idle"
            /\ dresult' = Threw
            /\ dprev' = dresult
            /\ UNCHANGED checks
       ELSE /\ checks' = [checks EXCEPT
                            !.artifactsExist = CheckArtifacts(artifactsDir)]
            /\ dpc' = "checkDeployment"
            /\ UNCHANGED <<dresult, dprev>>
    /\ UNCHANGED <<worldVars, dstate, detects>>
    /\ UNCHANGED <<deployVars, envVars, fetchVars>>
    /\ UNCHANGED auxVars

DetectCheckDeployment ==
    /\ dpc = "checkDeployment"
    /\ checks' = [checks EXCEPT !.deploymentRunning =
                    CheckDeployment(cfgFile, dockerUp, allContainers)]
    /\ dpc' = "checkEnv"
    /\ UNCHANGED <<worldVars, dstate, dresult, dprev, detects>>
    /\ UNCHANGED <<deployVars, envVars, fetchVars>>
    /\ UNCHANGED auxVars

DetectCheckEnv ==
    /\ dpc = "checkEnv"
    /\ checks' = [checks EXCEPT !.envValid = CheckEnv(cfgFile, envFile, envSet)]
    /\ dpc' = "checkDatabase"
    /\ UNCHANGED <<worldVars, dstate, dresult, dprev, detects>>
    /\ UNCHANGED <<deployVars, envVars, fetchVars>>
    /\ UNCHANGED auxVars

DetectCheckDatabase ==
    /\ dpc = "checkDatabase"
    /\ checks' = [checks EXCEPT
                    !.databaseExists = CheckDatabase(cfgFile, dbFile, envSet)]
    /\ dpc' = "classify"
    /\ UNCHANGED <<worldVars, dstate, dresult, dprev, detects>>
    /\ UNCHANGED <<deployVars, envVars, fetchVars>>
    /\ UNCHANGED auxVars

\* the if / else-if chain that assigns this.state
DetectClassify ==
    /\ dpc = "classify"
    /\ CASE BaseBranch(checks) = "first-launch" ->
              IF SuggestionsThrow(artifactsDir)
              THEN /\ dpc' = "idle"
                   /\ dresult' = Threw
                   /\ dprev' = dresult
                   /\ UNCHANGED dstate
              ELSE /\ dstate' = FirstLaunchState(checks,
                                    FirstLaunchSuggestions(pkgFile, artifactsDir))
                   /\ dpc' = "errors"
                   /\ UNCHANGED <<dresult, dprev>>
         [] BaseBranch(checks) = "configured-not-deployed" ->
              /\ dstate' = ConfiguredState(checks, LoadConfig(cfgFile))
              /\ dpc' = "errors"
              /\ UNCHANGED <<dresult, dprev>>
         [] BaseBranch(checks) = "running" ->
              /\ dstate' = RunningState(checks, LoadConfig(cfgFile),
                              DeploymentInfo(cfgFile, dockerUp, allContainers))
              /\ dpc' = "errors"
              /\ UNCHANGED <<dresult, dprev>>
         [] OTHER ->
              /\ dpc' = "errors"
              /\ UNCHANGED <<dstate, dresult, dprev>>
    /\ UNCHANGED <<worldVars, checks, detects>>
    /\ UNCHANGED <<deployVars, envVars, fetchVars>>
    /\ UNCHANGED auxVars

\* detectErrors, suggestFixes, the overlay, and `return this.state`
DetectErrorsAndReturn ==
    /\ dpc = "errors"
    /\ dstate' = FinalState(dresult, dstate, DetectErrors(checks, cfgFile))
    /\ dresult' = dstate'
    /\ dprev' = dresult
    /\ dpc' = "idle"
    /\ UNCHANGED <<worldVars, checks, detects>>
    /\ UNCHANGED <<deployVars, envVars, fetchVars>>
    /\ UNCHANGED auxVars

NextDetect ==
    \/ DetectBegin
    \/ DetectCheckConfig
    \/ DetectCheckDocker
    \/ DetectCheckArtifacts
    \/ DetectCheckDeployment
    \/ DetectCheckEnv
    \/ DetectCheckDatabase
    \/ DetectClassify
    \/ DetectErrorsAndReturn

SpecDetect == InitDetect /\ [][NextDetect]_vars

(* ---------------------------------------------------------------------- *)
(* detect() beside a writer of the config file                             *)
(* ---------------------------------------------------------------------- *)

\* what the config file can hold
ConfigFiles == {AbsentConfig, BrokenConfig} \cup LoadedConfigs({"local"})

\* a detector on a project with a running daemon, a .env file and a
\* readable artifacts directory
InitDetectWrite ==
    /\ cfgFile \in ConfigFiles
    /\ dockerUp = TRUE
    /\ allContainers \in {{}, {ProjectUp}}
    /\ envFile = TRUE
    /\ envSet \in SUBSET {"SESSION_SECRET", "GOOGLE_CLIENT_ID"}
    /\ artifactsDir = "dirs"
    /\ dbFile = FALSE
    /\ pkgFile = FALSE
    /\ versions = {cfgFile}
    /\ dstate = NoState
    /\ dpc = "idle"
    /\ checks = NoChecks
    /\ dresult = NoState
    /\ dprev = NoState
    /\ detects = 0
    /\ DeployParked
    /\ EnvParked
    /\ FetchParked
    /\ AuxParked

\* another process rewrites (or removes) the config file while detect() is
\* suspended at one of its awaits; nothing locks the file
WriteConfig ==
    /\ dpc \notin {"idle", "off"}
    /\ Cardinality(versions) <= MaxWrites
    /\ \E new \in ConfigFiles \ versions :
          /\ cfgFile' = new
          /\ versions' = versions \cup {new}
    /\ UNCHANGED <<dockerUp, allContainers, envFile, envSet, artifactsDir,
                   dbFile, pkgFile>>
    /\ UNCHANGED <<dstate, dpc, checks, dresult, dprev, detects>>
    /\ UNCHANGED <<deployVars, envVars, fetchVars>>
    /\ UNCHANGED auxVars

NextDetectWrite ==
    \/ NextDetect
    \/ WriteConfig

SpecDetectWrite == InitDetectWrite /\ [][NextDetectWrite]_vars

(* ---------------------------------------------------------------------- *)
(* The two environment checks, applied to the same project                 *)
(* ---------------------------------------------------------------------- *)

\* the variables validateEnvironment() requires for a config, in its order
ValidateRequired(cfg) ==
    << "SESSION_SECRET" >>
        \o (IF cfg.oauth THEN << "GOOGLE_CLIENT_ID", "GOOGLE_CLIENT_SECRET" >>
                         ELSE << >>)

\* validateEnvironment(): the daemon, then the variables, then the source of
\* a local provider (path.resolve of an unset source is a TypeError)
ValidateEnvironmentResult(cfg, up, env) ==
    LET missing == MissingOf(ValidateRequired(cfg), env) IN
    IF ~up
    THEN [result |-> "threw", error |-> "docker-not-running",
          missing |-> << >>]
    ELSE IF Len(missing) > 0
    THEN [result |-> "threw", error |-> "missing-env", missing |-> missing]
    ELSE IF cfg.provider = "local" /\ cfg.source = "unset"
    THEN [result |-> "threw", error |-> "type-error", missing |-> << >>]
    ELSE IF cfg.provider = "local" /\ cfg.source = "missing"
    THEN [result |-> "threw", error |-> "source-not-found",
          missing |-> << >>]
    ELSE [result |-> "ok", error |-> "none", missing |-> << >>]

\* a project with a config that loads, a detector and a deployment manager
\* that have not been used
InitEnv ==
    /\ cfgFile \in LoadedConfigs({"local", "url"})
    /\ dockerUp \in BOOLEAN
    /\ allContainers = {}
    /\ envFile \in BOOLEAN
    /\ envSet \in SUBSET EnvVarNames
    /\ artifactsDir = "absent"
    /\ dbFile = FALSE
    /\ pkgFile = FALSE
    /\ versions = {cfgFile}
    /\ dstate = NoState
    /\ dpc = "off"
    /\ checks = NoChecks
    /\ dresult = NoState
    /\ dprev = NoState
    /\ detects = 0
    /\ envProbe = NoEnvProbe
    /\ venv = NoVenv
    /\ DeployParked
    /\ FetchParked
    /\ AuxParked

\* the detector's checkEnv() is applied to the project
ApplyCheckEnv ==
    /\ ~envProbe.applied
    /\ envProbe' = [applied |-> TRUE] @@ CheckEnv(cfgFile, envFile, envSet)
    /\ UNCHANGED venv
    /\ UNCHANGED <<deployVars, detectVars, fetchVars>>
    /\ UNCHANGED auxVars

\* the manager's validateEnvironment() is applied to the project
ApplyValidateEnvironment ==
    /\ venv.result = "none"
    /\ venv' = ValidateEnvironmentResult(cfgFile, dockerUp, envSet)
    /\ UNCHANGED envProbe
    /\ UNCHANGED <<deployVars, detectVars, fetchVars>>
    /\ UNCHANGED auxVars

NextEnv ==
    \/ ApplyCheckEnv
    \/ ApplyValidateEnvironment

SpecEnv == InitEnv /\ [][NextEnv]_vars

(* ---------------------------------------------------------------------- *)
(* Artifact providers and DeploymentManager.fetchArtifact()                *)
(* ---------------------------------------------------------------------- *)

\* config.provider: not set, 'auto', a provider's name, or any other name
ProviderNames == {"unset", "auto", "claude", "local", "url", "other"}

\* config.source: a URL on claude.ai or anthropic.com, another http(s) URL,
\* a path that exists, a path that does not
SourceKinds == {"claude-url", "http-url", "local-exists", "local-missing"}

IsURL(source) == source \in {"claude-url", "http-url"}

\* the types each provider's detectType() can answer
ClaudeTypes == {"react", "html", "markdown", "vue", "svelte", "unknown"}

URLTypes == {"zip", "tarball", "html", "markdown", "github", "unknown"}

LocalTypes ==
    {"html", "markdown", "react", "vue", "svelte", "javascript",
     "typescript", "next", "nuxt", "node", "unknown"}

TypesOf(kind) ==
    CASE kind = "claude" -> ClaudeTypes
      [] kind = "url" -> URLTypes
      [] OTHER -> LocalTypes

\* new ClaudeProvider / LocalProvider / URLProvider: artifactPath and
\* downloadedPath start null, and only ClaudeProvider has a prepare()
NewProvider(kind) ==
    [kind |-> kind, fetched |-> FALSE, hasPrepare |-> (kind = "claude")]

\* detectProvider(): the kind of provider, or "none" where it throws
DetectProvider(source) ==
    IF source = "claude-url" THEN "claude"
    ELSE IF source = "http-url" THEN "url"
    ELSE IF source = "local-exists" THEN "local"
    ELSE "none"

\* getProvider(): the kind of provider, or "none" for an unknown name
GetProvider(name) ==
    IF name \in {"claude", "local", "url"} THEN name ELSE "none"

\* a createProvider() that looks at the source first and at the configured
\* name only where the source selects nothing
CreateProviderSourceFirst(cfg) ==
    IF DetectProvider(cfg.source) # "none" THEN DetectProvider(cfg.source)
    ELSE GetProvider(cfg.provider)

\* createProvider(): config.provider || 'auto'
CreateProvider(cfg) ==
    LET providerType == IF cfg.provider = "unset" THEN "auto"
                        ELSE cfg.provider
    IN  IF providerType = "auto" THEN DetectProvider(cfg.source)
        ELSE GetProvider(providerType)

CreateProviderError(cfg) ==
    IF cfg.provider \in {"unset", "auto"} THEN "undetectable"
    ELSE "unknown-provider"

\* a validate() of the Claude and URL providers that does not ask for a
\* fetched artifact
ProviderValidateNoFetchCheck(p, source) ==
    CASE p.kind = "local" ->
           IF source = "local-exists" THEN "none" ELSE "source-not-found"
      [] p.kind \in {"claude", "url"} -> "none"

\* validate() of each provider: the error it throws, or "none"
ProviderValidate(p, source) ==
    CASE p.kind = "local" ->
           IF source = "local-exists" THEN "none" ELSE "source-not-found"
      [] p.kind \in {"claude", "url"} ->
           IF ~p.fetched THEN "not-fetched-yet" ELSE "none"

\* fetch() of each provider: the error it throws, or "none"; io says
\* whether the download or the copy went through
ProviderFetch(p, source, io) ==
    CASE p.kind = "local" ->
           IF source # "local-exists" THEN "source-not-found"
           ELSE IF io THEN "none" ELSE "io"
      [] p.kind = "claude" ->
           IF IsURL(source) THEN (IF io THEN "none" ELSE "io")
           ELSE IF source # "local-exists" THEN "source-not-found"
           ELSE IF io THEN "none" ELSE "io"
      [] p.kind = "url" ->
           IF IsURL(source) /\ io THEN "none" ELSE "io"

\* the provider after a fetch() that succeeded
AfterFetch(p) ==
    IF p.kind \in {"claude", "url"} THEN [p EXCEPT !.fetched = TRUE] ELSE p

FetchThrew(error) ==
    [result |-> "threw", error |-> error, path |-> "none", type |-> "none"]

\* a deployment manager whose fetchArtifact() has not been called
InitFetch ==
    /\ fcfg \in [provider : ProviderNames, source : SourceKinds]
    /\ fpc = "idle"
    /\ provider = NoProvider
    /\ calls = << >>
    /\ fresult = NoFetchResult
    /\ DeployParked
    /\ DetectParked
    /\ EnvParked
    /\ AuxParked

\* const provider = await createProvider(this.config)
FetchCreateProvider ==
    /\ fpc = "idle"
    /\ IF CreateProvider(fcfg) = "none"
       THEN /\ fresult' = FetchThrew(CreateProviderError(fcfg))
            /\ fpc' = "done"
            /\ UNCHANGED provider
       ELSE /\ provider' = NewProvider(CreateProvider(fcfg))
            /\ fpc' = "validate"
            /\ UNCHANGED fresult
    /\ UNCHANGED <<fcfg, calls>>
    /\ UNCHANGED <<deployVars, detectVars, envVars>>
    /\ UNCHANGED auxVars

\* await provider.validate()
FetchValidate ==
    /\ fpc = "validate"
    /\ calls' = Append(calls, "validate")
    /\ IF ProviderValidate(provider, fcfg.source) = "none"
       THEN /\ fpc' = "fetch"
            /\ UNCHANGED fresult
       ELSE /\ fresult' = FetchThrew(ProviderValidate(provider, fcfg.source))
            /\ fpc' = "done"
    /\ UNCHANGED <<fcfg, provider>>
    /\ UNCHANGED <<deployVars, detectVars, envVars>>
    /\ UNCHANGED auxVars

\* const artifact = await provider.fetch()
FetchFetch ==
    /\ fpc = "fetch"
    /\ calls' = Append(calls, "fetch")
    /\ \E io \in BOOLEAN :
         \E type \in (IF io THEN TypesOf(provider.kind) ELSE {"none"}) :
           IF ProviderFetch(provider, fcfg.source, io) = "none"
           THEN /\ provider' = AfterFetch(provider)
                /\ fresult' = [result |-> "pending", error |-> "none",
                               path |-> "artifacts", type |-> type]
                /\ fpc' = "prepare"
           ELSE /\ fresult' =
                      FetchThrew(ProviderFetch(provider, fcfg.source, io))
                /\ fpc' = "done"
                /\ UNCHANGED provider
    /\ UNCHANGED fcfg
    /\ UNCHANGED <<deployVars, detectVars, envVars>>
    /\ UNCHANGED auxVars

\* if (typeof provider.prepare === 'function') await provider.prepare();
\* return artifact
FetchPrepare ==
    /\ fpc = "prepare"
    /\ calls' = IF provider.hasPrepare THEN Append(calls, "prepare")
                ELSE calls
    /\ fresult' = [fresult EXCEPT !.result = "ok"]
    /\ fpc' = "done"
    /\ UNCHANGED <<fcfg, provider>>
    /\ UNCHANGED <<deployVars, detectVars, envVars>>
    /\ UNCHANGED auxVars

NextFetch ==
    \/ FetchCreateProvider
    \/ FetchValidate
    \/ FetchFetch
    \/ FetchPrepare

SpecFetch == InitFetch /\ [][NextFetch]_vars

\* the checks, the branch and the state detect() computes when every read
\* of the config file sees the same value
ChecksOf(file) ==
    [configExists |-> CheckConfig(file),
     dockerRunning |-> CheckDocker(dockerUp),
     artifactsExist |-> CheckArtifacts(artifactsDir),
     deploymentRunning |-> CheckDeployment(file, dockerUp, allContainers),
     envValid |-> CheckEnv(file, envFile, envSet),
     databaseExists |-> CheckDatabase(file, dbFile, envSet)]

BaseOf(file) ==
    CASE BaseBranch(ChecksOf(file)) = "first-launch" ->
           FirstLaunchState(ChecksOf(file),
                            FirstLaunchSuggestions(pkgFile, artifactsDir))
      [] BaseBranch(ChecksOf(file)) = "configured-not-deployed" ->
           ConfiguredState(ChecksOf(file), LoadConfig(file))
      [] OTHER ->
           RunningState(ChecksOf(file), LoadConfig(file),
                        DeploymentInfo(file, dockerUp, allContainers))

SnapshotState(file) ==
    FinalState(NoState, BaseOf(file), DetectErrors(ChecksOf(file), file))

\* detect() as one call: the state it returns, or Threw where checkArtifacts
\* or getFirstLaunchSuggestions raises
DetectCall ==
    IF CheckArtifactsThrows(artifactsDir) THEN Threw
    ELSE IF BaseBranch(ChecksOf(cfgFile)) = "first-launch"
            /\ SuggestionsThrow(artifactsDir)
    THEN Threw
    ELSE SnapshotState(cfgFile)

(* ---------------------------------------------------------------------- *)
(* SmartDashboard: views, retry and the exit dialog                        *)
(* ---------------------------------------------------------------------- *)

\* showStateView(): the view for a state type
ViewFor(state) ==
    CASE state.type = "first-launch" -> "first-launch"
      [] state.type = "configured-not-deployed" -> "ready-to-deploy"
      [] state.type = "running" -> "running"
      [] state.type = "error" -> "error"
      [] OTHER -> "first-launch"

\* showReadyToDeployView() and showRunningView() read config.name: a
\* TypeError for a null config
ShowThrows(state) ==
    /\ ViewFor(state) \in {"ready-to-deploy", "running"}
    /\ state.config.status = "null"

Views == {"first-launch", "ready-to-deploy", "running", "error"}

RECURSIVE CountOf(_, _)
CountOf(seq, kind) ==
    IF seq = << >> THEN 0
    ELSE (IF Head(seq) = kind THEN 1 ELSE 0) + CountOf(Tail(seq), kind)

Dialogs(children) == CountOf(children, "dialog")

\* the last element of the given kinds, "none" without one
LastOf(children, kinds) ==
    LET at == { i \in 1..Len(children) : children[i] \in kinds }
    IN  IF at = {} THEN "none"
        ELSE children[CHOOSE i \in at : \A j \in at : j <= i]

\* the focused element: every dialog and every view takes the focus when it
\* is appended, and the focus falls back when the focused element goes
Focused(children) == LastOf(children, Views \cup {"dialog"})

\* the view on top of the other views
TopView(children) == LastOf(children, Views)

\* box.destroy() of the newest box of a kind
RemoveLast(children, kind) ==
    LET at == { i \in 1..Len(children) : children[i] = kind }
        last == CHOOSE i \in at : \A j \in at : j <= i
    IN  IF at = {} THEN children
        ELSE SubSeq(children, 1, last - 1)
                \o SubSeq(children, last + 1, Len(children))

\* screen.children.forEach(child => child.detach()): detach() splices the
\* array forEach is walking, so every second child is skipped and stays
DetachEach(children) ==
    [i \in 1..(Len(children) \div 2) |-> children[2 * i]]

\* the projects the dashboard is started in and changed to
UIConfigs ==
    {AbsentConfig, BrokenConfig}
        \cup { c \in LoadedConfigs({"local"}) :
                 ~c.oauth /\ c.database = "sqlite" /\ c.source # "unset" }

\* a project with a .env file that sets SESSION_SECRET; containers are
\* listed only where a daemon and a loadable config make them matter
UIWorlds ==
    { w \in [cfgFile : UIConfigs, dockerUp : BOOLEAN,
             allContainers : {{}, {ProjectUp}},
             artifactsDir : {"absent", "unreadable"}] :
        w.allContainers # {} => (w.dockerUp /\ w.cfgFile.status = "loaded") }

\* launch() has created the screen and the loading box and awaits detect()
InitUI ==
    /\ \E w \in UIWorlds :
          /\ cfgFile = w.cfgFile
          /\ dockerUp = w.dockerUp
          /\ allContainers = w.allContainers
          /\ artifactsDir = w.artifactsDir
    /\ envFile = TRUE
    /\ envSet = {"SESSION_SECRET"}
    /\ dbFile = FALSE
    /\ pkgFile = FALSE
    /\ versions = {cfgFile}
    /\ dstate = NoState
    /\ dpc = "off"
    /\ checks = NoChecks
    /\ dresult = NoState
    /\ dprev = NoState
    /\ detects = 0
    /\ shown = << "loading" >>
    /\ uiState = NoState
    /\ uiPc = "launching"
    /\ retries = 0
    /\ key = "none"
    /\ hadDialog = FALSE
    /\ detected = NoState
    /\ DeployParked
    /\ EnvParked
    /\ FetchParked
    /\ LocalParked
    /\ WizardParked
    /\ GitParked

UIOthersUnchanged ==
    /\ UNCHANGED <<dstate, dpc, checks, dresult, dprev, detects>>
    /\ UNCHANGED <<deployVars, envVars, fetchVars>>
    /\ UNCHANGED <<localVars, wizardVars, gitVars>>

\* the rest of launch(): detect() answers, the loading box goes and the
\* view for the state is shown; an exception rejects the launch promise
LaunchDetects ==
    /\ uiPc = "launching"
    /\ detected' = DetectCall
    /\ IF DetectCall = Threw
       THEN /\ uiPc' = "failed"
            /\ UNCHANGED <<shown, uiState>>
       ELSE /\ uiState' = DetectCall
            /\ IF ShowThrows(DetectCall)
               THEN /\ shown' = RemoveLast(shown, "loading")
                    /\ uiPc' = "failed"
               ELSE /\ shown' = Append(RemoveLast(shown, "loading"),
                                       ViewFor(DetectCall))
                    /\ uiPc' = "shown"
    /\ UNCHANGED <<retries, key, hadDialog>>
    /\ UNCHANGED worldVars
    /\ UIOthersUnchanged

\* the user or another program changes the project while a view is shown
ProjectChanges ==
    /\ uiPc = "shown"
    /\ \E w \in UIWorlds :
          /\ w # [cfgFile |-> cfgFile, dockerUp |-> dockerUp,
                  allContainers |-> allContainers,
                  artifactsDir |-> artifactsDir]
          /\ cfgFile' = w.cfgFile
          /\ dockerUp' = w.dockerUp
          /\ allContainers' = w.allContainers
          /\ artifactsDir' = w.artifactsDir
          /\ versions' = {w.cfgFile}
    /\ UNCHANGED <<envFile, envSet, dbFile, pkgFile>>
    /\ UNCHANGED uiVars
    /\ UIOthersUnchanged

\* q, escape or Ctrl-C: the screen's handler calls confirmExit(), which
\* appends and focuses a new dialog; the element that had the focus gets
\* the key as well, and a dialog destroys itself on q and escape
PressExitKey ==
    /\ uiPc \in {"launching", "shown", "retrying"}
    /\ \E k \in {"q", "escape", "C-c"} :
          /\ key' = k
          /\ IF Focused(shown) = "dialog" /\ k \in {"q", "escape"}
             THEN shown' = Append(RemoveLast(shown, "dialog"), "dialog")
             ELSE /\ Dialogs(shown) < MaxDialogs
                  /\ shown' = Append(shown, "dialog")
    /\ hadDialog' = (Dialogs(shown) > 0)
    /\ UNCHANGED <<uiState, uiPc, retries, detected>>
    /\ UNCHANGED worldVars
    /\ UIOthersUnchanged

\* y: the focused dialog destroys itself and calls back with true, and
\* confirmExit() cleans up and exits; no other element handles y
PressY ==
    /\ uiPc \in {"launching", "shown", "retrying"}
    /\ key' = "y"
    /\ hadDialog' = (Dialogs(shown) > 0)
    /\ IF Focused(shown) = "dialog"
       THEN shown' = << >> /\ uiPc' = "exited"
       ELSE UNCHANGED <<shown, uiPc>>
    /\ UNCHANGED <<uiState, retries, detected>>
    /\ UNCHANGED worldVars
    /\ UIOthersUnchanged

\* n: the focused dialog destroys itself and calls back with false
PressN ==
    /\ uiPc \in {"launching", "shown", "retrying"}
    /\ key' = "n"
    /\ hadDialog' = (Dialogs(shown) > 0)
    /\ shown' = IF Focused(shown) = "dialog"
                THEN RemoveLast(shown, "dialog") ELSE shown
    /\ UNCHANGED <<uiState, uiPc, retries, detected>>
    /\ UNCHANGED worldVars
    /\ UIOthersUnchanged

\* t on a focused error view: retryDetection() up to its await
PressT ==
    /\ uiPc = "shown"
    /\ Focused(shown) = "error"
    /\ retries < MaxRetries
    /\ retries' = retries + 1
    /\ key' = "t"
    /\ hadDialog' = (Dialogs(shown) > 0)
    /\ shown' = Append(DetachEach(shown), "loading")
    /\ uiPc' = "retrying"
    /\ UNCHANGED <<uiState, detected>>
    /\ UNCHANGED worldVars
    /\ UIOthersUnchanged

\* the rest of retryDetection(); its rejection is handled nowhere, so the
\* process ends or goes on with what is on the screen
RetryDetects ==
    /\ uiPc = "retrying"
    /\ detected' = DetectCall
    /\ IF DetectCall = Threw
       THEN /\ uiPc' \in {"crashed", "shown"}
            /\ UNCHANGED <<shown, uiState>>
       ELSE /\ uiState' = DetectCall
            /\ IF ShowThrows(DetectCall)
               THEN /\ shown' = RemoveLast(shown, "loading")
                    /\ uiPc' \in {"crashed", "shown"}
               ELSE /\ shown' = Append(RemoveLast(shown, "loading"),
                                       ViewFor(DetectCall))
                    /\ uiPc' = "shown"
    /\ UNCHANGED <<retries, key, hadDialog>>
    /\ UNCHANGED worldVars
    /\ UIOthersUnchanged

NextUI ==
    \/ LaunchDetects
    \/ ProjectChanges
    \/ PressExitKey
    \/ PressY
    \/ PressN
    \/ PressT
    \/ RetryDetects

SpecUI == InitUI /\ [][NextUI]_vars

(* ---------------------------------------------------------------------- *)
(* LocalProvider.detectType()                                              *)
(* ---------------------------------------------------------------------- *)

\* extensions of source files, as path.extname gives them
FileExts ==
    {".html", ".htm", ".md", ".jsx", ".tsx", ".vue", ".svelte", ".js", ".ts",
     ".HTML", ".JS", ".css", ""}

\* ext.toLowerCase()
ToLowerCase(ext) ==
    CASE ext = ".HTML" -> ".html"
      [] ext = ".JS" -> ".js"
      [] OTHER -> ext

\* names a package.json can list under dependencies or devDependencies
DepNames == {"react", "react-dom", "vue", "svelte", "next", "nuxt", "express"}

\* a source: a path that is missing, a file with its extension, or a
\* directory with its package.json (none, parsable with its dependencies,
\* not parsable) and whether it holds .html and .md files
LocalSources ==
    [kind : {"missing"}, ext : {""}, pkg : {"none"}, deps : {{}},
        html : {FALSE}, md : {FALSE}]
    \cup [kind : {"file"}, ext : FileExts, pkg : {"none"}, deps : {{}},
          html : {FALSE}, md : {FALSE}]
    \cup [kind : {"dir"}, ext : {""}, pkg : {"none"}, deps : {{}},
          html : BOOLEAN, md : BOOLEAN]
    \cup [kind : {"dir"}, ext : {""}, pkg : {"invalid"}, deps : {{}},
          html : {FALSE}, md : {FALSE}]
    \cup [kind : {"dir"}, ext : {""}, pkg : {"valid"}, deps : SUBSET DepNames,
          html : {FALSE}, md : {FALSE}]

\* a detectFileType() that answers the bare extension where typeMap has no
\* entry
DetectFileTypeRaw(ext) ==
    LET e == ToLowerCase(ext) IN
    CASE e \in {".html", ".htm"} -> "html"
      [] e = ".md" -> "markdown"
      [] e \in {".jsx", ".tsx"} -> "react"
      [] e = ".vue" -> "vue"
      [] e = ".svelte" -> "svelte"
      [] e = ".js" -> "javascript"
      [] e = ".ts" -> "typescript"
      [] OTHER -> e

\* detectFileType(): typeMap[ext] || 'unknown'
DetectFileType(ext) ==
    LET e == ToLowerCase(ext) IN
    CASE e \in {".html", ".htm"} -> "html"
      [] e = ".md" -> "markdown"
      [] e \in {".jsx", ".tsx"} -> "react"
      [] e = ".vue" -> "vue"
      [] e = ".svelte" -> "svelte"
      [] e = ".js" -> "javascript"
      [] e = ".ts" -> "typescript"
      [] OTHER -> "unknown"

\* detectDirectoryType(): package.json first (readJSON throws on a file
\* that does not parse), then .html files, then .md files
DetectDirectoryType(src) ==
    IF src.pkg = "invalid" THEN "threw"
    ELSE IF src.pkg = "valid"
    THEN (IF "react" \in src.deps \/ "react-dom" \in src.deps THEN "react"
          ELSE IF "vue" \in src.deps THEN "vue"
          ELSE IF "svelte" \in src.deps THEN "svelte"
          ELSE IF "next" \in src.deps THEN "next"
          ELSE IF "nuxt" \in src.deps THEN "nuxt"
          ELSE "node")
    ELSE IF src.html THEN "html"
    ELSE IF src.md THEN "markdown"
    ELSE "unknown"

\* detectType(): fs.stat throws for a missing path
LocalDetectType(src) ==
    IF src.kind = "missing" THEN "threw"
    ELSE IF src.kind = "file" THEN DetectFileType(src.ext)
    ELSE DetectDirectoryType(src)

InitLocal ==
    /\ lsource \in LocalSources
    /\ ltype = "none"
    /\ DeployParked
    /\ DetectParked
    /\ EnvParked
    /\ FetchParked
    /\ UIParked
    /\ WizardParked
    /\ GitParked

\* detectType() is called on a LocalProvider for the source
ApplyDetectType ==
    /\ ltype = "none"
    /\ ltype' = LocalDetectType(lsource)
    /\ UNCHANGED lsource
    /\ UNCHANGED <<deployVars, detectVars, envVars, fetchVars>>
    /\ UNCHANGED <<uiVars, wizardVars, gitVars>>

NextLocal == ApplyDetectType

SpecLocal == InitLocal /\ [][NextLocal]_vars

(* ---------------------------------------------------------------------- *)
(* run() with fetchArtifact() carried out by the providers                 *)
(* ---------------------------------------------------------------------- *)

\* a manager whose config names a provider and a source; no run started
InitRunFetch ==
    /\ config \in Configs
    /\ rollbackState = NullState
    /\ running \in SUBSET Services
    /\ pc = "idle"
    /\ inflight = FALSE
    /\ runNo = 0
    /\ began = << >>
    /\ finished = << >>
    /\ caught = "none"
    /\ outcome = "none"
    /\ thrown = "none"
    /\ rollbacks = 0
    /\ stopCalls = 0
    /\ rollbackError = "none"
    /\ probes = 0
    /\ sleeps = 0
    /\ firstProbe = NoProbe
    /\ retryProbe = NoProbe
    /\ verified = "none"
    /\ preRunning = {}
    /\ captured = FALSE
    /\ fcfg \in [provider : ProviderNames, source : SourceKinds]
    /\ fpc = "off"
    /\ provider = NoProvider
    /\ calls = << >>
    /\ fresult = NoFetchResult
    /\ DetectParked
    /\ EnvParked
    /\ AuxParked

\* a step other than fetchArtifact is called
RunStepCall ==
    /\ pc # "fetchArtifact"
    /\ StepCall

\* const artifact = await this.fetchArtifact(): the call starts with no
\* provider; createProvider() makes a new one in every run
RunFetchCall ==
    /\ pc = "fetchArtifact"
    /\ ~inflight
    /\ inflight' = TRUE
    /\ began' = Append(began, pc)
    /\ fpc' = "idle"
    /\ provider' = NoProvider
    /\ calls' = << >>
    /\ fresult' = NoFetchResult
    /\ UNCHANGED fcfg
    /\ UNCHANGED <<config, rollbackState, running, pc, runNo, finished, caught,
                   outcome, thrown, rollbacks, stopCalls, rollbackError, probes,
                   sleeps, firstProbe, retryProbe, verified, preRunning,
                   captured>>
    /\ UNCHANGED <<detectVars, envVars>>
    /\ UNCHANGED auxVars

\* fetchArtifact() returned the artifact or threw: the awaited step
\* resolves or rejects accordingly
RunFetchSettles ==
    /\ fpc = "done"
    /\ IF fresult.result = "ok" THEN StepResolves("fetchArtifact")
                                ELSE StepRejects("fetchArtifact")
    /\ UNCHANGED <<config, rollbackState, running, runNo, began, outcome,
                   thrown, rollbacks, stopCalls, rollbackError, probes, sleeps,
                   firstProbe, retryProbe, verified, preRunning, captured>>
    /\ UNCHANGED <<detectVars, envVars, fetchVars>>
    /\ UNCHANGED auxVars

NextRunFetch ==
    \/ RunBegin
    \/ RunStepCall
    \/ ValidateEnvironment
    \/ RunFetchCall
    \/ FetchCreateProvider
    \/ FetchValidate
    \/ FetchFetch
    \/ FetchPrepare
    \/ RunFetchSettles
    \/ InitializeDatabase
    \/ GenerateDockerFiles
    \/ BuildImage
    \/ SaveRollbackState
    \/ StartContainers
    \/ VerifyFirstProbe
    \/ VerifyRetryProbe
    \/ GitCommit
    \/ ReturnSuccess
    \/ Rollback
    \/ NoRollback
    \/ Rethrow

SpecRunFetch == InitRunFetch /\ [][NextRunFetch]_vars

(* ---------------------------------------------------------------------- *)
(* The setup wizard's server port                                          *)
(* ---------------------------------------------------------------------- *)

\* what the user types at the prompt, after trim(): an optional sign, a run
\* of digits (here by its value, when there is one) and what follows it
TypedLines ==
    [sign : {"", "-", "+"},
     hasDigits : {TRUE},
     digits : {0, 1, 80, DefaultPort, MaxPort, MaxPort + 1, 99999},
     rest : {"", "abc", ".5"}]
    \cup
    [sign : {"", "-", "+"},
     hasDigits : {FALSE},
     digits : {0},
     rest : {"", "abc", ".5"}]

\* answer.trim() is the empty string
IsEmptyLine(line) == line.sign = "" /\ ~line.hasDigits /\ line.rest = ""

NaN == [nan |-> TRUE, n |-> 0]

Number(n) == [nan |-> FALSE, n |-> n]

\* parseInt(): the sign and the leading digits, NaN without a digit
ParseInt(line) ==
    IF ~line.hasDigits THEN NaN
    ELSE IF line.sign = "-" THEN Number(0 - line.digits)
    ELSE Number(line.digits)

\* simplePrompt() for a question of type 'number':
\* answer.trim() || q.initial || '', then parseInt(...) || q.initial; NaN
\* and 0 are falsy; the question's validate() is not called
SimplePromptNumber(line, initial) ==
    LET parsed == IF IsEmptyLine(line) THEN Number(initial) ELSE ParseInt(line)
    IN  IF parsed.nan THEN initial
        ELSE IF parsed.n = 0 THEN initial
        ELSE parsed.n

\* generateConfig(): server.port is answers.serverPort
GenerateConfigPort(serverPort) == [written |-> TRUE, value |-> serverPort]

InitWizard ==
    /\ typed \in TypedLines
    /\ port = NoPort
    /\ DeployParked
    /\ DetectParked
    /\ EnvParked
    /\ FetchParked
    /\ UIParked
    /\ LocalParked
    /\ GitParked

\* initialize(): the port question is answered and the config generated
AnswerServerPort ==
    /\ ~port.written
    /\ port' = GenerateConfigPort(SimplePromptNumber(typed, DefaultPort))
    /\ UNCHANGED typed
    /\ UNCHANGED <<deployVars, detectVars, envVars, fetchVars>>
    /\ UNCHANGED <<uiVars, localVars, gitVars>>

NextWizard == AnswerServerPort

SpecWizard == InitWizard /\ [][NextWizard]_vars

(* ---------------------------------------------------------------------- *)
(* TalkingGitWorkflow                                                      *)
(* ---------------------------------------------------------------------- *)

\* new TalkingGitWorkflow(gitManager): this.timer = null (here 0); no
\* interval timer exists
InitGit ==
    /\ timer = 0
    /\ timers = {}
    /\ started = 0
    /\ ticking = {}
    /\ halted = FALSE
    /\ lateCommits = 0
    /\ DeployParked
    /\ DetectParked
    /\ EnvParked
    /\ FetchParked
    /\ UIParked
    /\ LocalParked
    /\ WizardParked

\* start(): this.timer = setInterval(callback, this.interval); the handle
\* this.timer held before is overwritten, its timer is not cleared
WorkflowStart ==
    /\ started < MaxStarts
    /\ started' = started + 1
    /\ timers' = timers \cup {started + 1}
    /\ timer' = started + 1
    /\ halted' = FALSE
    /\ UNCHANGED <<ticking, lateCommits>>
    /\ UNCHANGED <<deployVars, detectVars, envVars, fetchVars>>
    /\ UNCHANGED <<uiVars, localVars, wizardVars>>

\* stop(): if (this.timer) { clearInterval(this.timer); this.timer = null }
WorkflowStop ==
    /\ IF timer # 0
       THEN /\ timers' = timers \ {timer}
            /\ timer' = 0
       ELSE UNCHANGED <<timer, timers>>
    /\ halted' = TRUE
    /\ UNCHANGED <<started, ticking, lateCommits>>
    /\ UNCHANGED <<deployVars, detectVars, envVars, fetchVars>>
    /\ UNCHANGED <<uiVars, localVars, wizardVars>>

\* an active interval timer fires: its callback runs up to
\* `await this.gitManager.status()`
IntervalFires ==
    /\ \E id \in timers \ ticking :
          ticking' = ticking \cup {id}
    /\ UNCHANGED <<timer, timers, started, halted, lateCommits>>
    /\ UNCHANGED <<deployVars, detectVars, envVars, fetchVars>>
    /\ UNCHANGED <<uiVars, localVars, wizardVars>>

\* the callback continues after status(): with changed files it starts
\* gitManager.commit({ push: true }), otherwise it ends
AutoCommit ==
    /\ \E id \in ticking : \E changed \in BOOLEAN :
          /\ ticking' = ticking \ {id}
          /\ IF changed /\ halted
             THEN /\ lateCommits < MaxLateCommits
                  /\ lateCommits' = lateCommits + 1
             ELSE UNCHANGED lateCommits
    /\ UNCHANGED <<timer, timers, started, halted>>
    /\ UNCHANGED <<deployVars, detectVars, envVars, fetchVars>>
    /\ UNCHANGED <<uiVars, localVars, wizardVars>>

NextGit ==
    \/ WorkflowStart
    \/ WorkflowStop
    \/ IntervalFires
    \/ AutoCommit

SpecGit == InitGit /\ [][NextGit]_vars

(* ---------------------------------------------------------------------- *)
(* Properties                                                              *)
(* ---------------------------------------------------------------------- *)

Range(seq) == { seq[i] : i \in 1..Len(seq) }

IsPrefix(s, t) == Len(s) <= Len(t) /\ \A i \in 1..Len(s) : s[i] = t[i]

\* steps 1-5 and steps 7-9 as the specification numbers them
StepsBeforeCapture ==
    {"validateEnvironment", "fetchArtifact", "initializeDatabase",
     "generateDockerFiles", "buildImage"}

StepsAfterCapture == {"startContainers", "verifyDeployment", "commit"}

\* C1: a run that failed in one of steps 1-5 made no rollback (stopContainers
\* was not called), and a run that failed in one of steps 7-9 after its
\* rollback state was captured made exactly one rollback attempt.
C1_RollbackGating ==
    pc = "done" =>
        /\ caught \in StepsBeforeCapture => (rollbacks = 0 /\ stopCalls = 0)
        /\ (caught \in StepsAfterCapture /\ captured) =>
                (rollbacks = 1 /\ stopCalls = 1)

\* the order of the steps that C2 states
C2_Order ==
    << "validateEnvironment", "fetchArtifact", "initializeDatabase",
       "generateDockerFiles", "buildImage", "saveRollbackState",
       "startContainers", "verifyDeployment", "commit" >>

\* C2: the steps of a run are called in the fixed order, a step is called
\* only when every earlier one has settled, no step is called after one
\* failed, the commit step is called only with autoCommit, and containers are
\* started only after the rollback-state capture has finished.
C2_StrictOrder ==
    /\ IsPrefix(began, C2_Order)
    /\ IsPrefix(finished, began)
    /\ Len(began) = Len(finished) + (IF inflight THEN 1 ELSE 0)
    /\ caught # "none" =>
          /\ finished = began
          /\ Len(began) >= 1
          /\ began[Len(began)] = caught
    /\ "startContainers" \in Range(began) =>
          "saveRollbackState" \in Range(finished)
    /\ "commit" \in Range(began) => config.autoCommit

\* C2 witness: a run went through all nine steps and returned
C2_Witness ==
    pc = "done" /\ outcome = "success" /\ finished = C2_Order

\* C3: a response to the first health request with a status below 500 makes
\* verification succeed, and one with a status of 500 or above makes it fail
\* at once, without a second request.
C3_FirstProbeClassified ==
    firstProbe.kind = "response" =>
        /\ probes = 1
        /\ retryProbe = NoProbe
        /\ firstProbe.status < 500 =>
              (verified = "ok" /\ caught # "verifyDeployment")
        /\ firstProbe.status >= 500 =>
              (verified = "fatal" /\ caught = "verifyDeployment")

\* C3 witness: a run ended by a 500 answer to its only health request
C3_Witness ==
    /\ pc = "done"
    /\ firstProbe.kind = "response"
    /\ firstProbe.status = 500
    /\ thrown = "verifyDeployment"
    /\ probes = 1

\* C4: after a refused first request exactly one more request is made after
\* a second wait; verification succeeds when the retry is answered with a
\* status below 500 and fails when the retry is refused again.
C4_SingleRetry ==
    (pc = "done" /\ firstProbe.kind = "error"
                 /\ firstProbe.code = "ECONNREFUSED") =>
        /\ probes = 2
        /\ sleeps = 2
        /\ (retryProbe.kind = "response" /\ retryProbe.status < 500) =>
              verified = "ok"
        /\ (retryProbe.kind = "error" /\ retryProbe.code = "ECONNREFUSED") =>
              verified = "fatal"

\* C5: a run whose commit step failed after steps 1-8 succeeded still
\* returns success and stops no container.
C5_CommitFailureNotFatal ==
    (pc = "done" /\ caught = "commit") =>
        (outcome = "success" /\ rollbacks = 0 /\ stopCalls = 0)

\* C6: when the rollback of a failed run failed too, run() rejects with the
\* failing step's error; the rollback failure is logged beside it and is not
\* the error run() rejects with.
C6_OriginalErrorKept ==
    (pc = "done" /\ rollbackError # "none") =>
        /\ outcome = "threw"
        /\ caught \in StepNames
        /\ thrown = caught
        /\ thrown # rollbackError

\* C6 witness: verification failed, then stopContainers failed in rollback
C6_Witness ==
    /\ pc = "done"
    /\ caught = "verifyDeployment"
    /\ rollbacks = 1
    /\ rollbackError = "stopContainers"

\* C7: a failed rollback-state capture does not abort the run, which goes on
\* to start containers, and no rollback is made later in that run.
C7_CaptureFailureContinues ==
    /\ caught # "saveRollbackState"
    /\ ("saveRollbackState" \in Range(finished) /\ ~captured) =>
          /\ rollbacks = 0
          /\ stopCalls = 0
          /\ Len(finished) = 6 => pc = "startContainers"
          /\ pc = "done" => "startContainers" \in Range(began)

\* C7 witness: a second run whose capture failed, and which then failed in
\* verification, ended without a rollback
C7_Witness ==
    /\ pc = "done"
    /\ runNo = 2
    /\ ~captured
    /\ caught = "verifyDeployment"
    /\ rollbacks = 0

\* C8: no rollback state is left on the manager when a run has ended, and a
\* later run that fails in steps 1-5 makes no rollback.
C8_StateDiscarded ==
    /\ pc \in {"idle", "done"} => ~rollbackState.present
    /\ (pc = "done" /\ runNo >= 2 /\ caught \in StepsBeforeCapture) =>
          rollbacks = 0

\* C9: after a rollback, every container that was up when run() was called
\* is still up.
C9_RollbackLeavesPriorContainers ==
    (pc \in {"rethrow", "done"} /\ rollbacks >= 1) =>
        preRunning \subseteq running

\* C10: a run whose first health request was answered with 200 returns
\* success and makes no rollback.
C10_HealthyRunSucceeds ==
    (pc = "done" /\ firstProbe.kind = "response" /\ firstProbe.status = 200) =>
        (outcome = "success" /\ rollbacks = 0)

\* C11: a run whose image build failed called neither the rollback-state
\* capture nor the container start, made no rollback, and rejected with the
\* build error.
C11_BuildFailureAborts ==
    (pc = "done" /\ caught = "buildImage") =>
        /\ "saveRollbackState" \notin Range(began)
        /\ "startContainers" \notin Range(began)
        /\ rollbacks = 0
        /\ stopCalls = 0
        /\ outcome = "threw"
        /\ thrown = "buildImage"

(* ---------------------------------------------------------------------- *)
(* Properties of detect()                                                  *)
(* ---------------------------------------------------------------------- *)

\* the latest detect() call has ended by returning a state
Returned ==
    dpc = "idle" /\ detects >= 1 /\ dresult.type \notin {"none", "threw"}

FirstLaunchMessage == "No configuration found. Starting setup..."
ConfiguredMessage == "Configuration found but not deployed"
RunningMessage == "Deployment is running"

C13_OneBaseState ==
    Returned =>
        /\ "message" \in DOMAIN dresult
        /\ dresult.message \in
              {FirstLaunchMessage, ConfiguredMessage, RunningMessage}
        /\ dresult.message = FirstLaunchMessage <=>
              ~dresult.checks.configExists
        /\ dresult.message = ConfiguredMessage <=>
              (dresult.checks.configExists
                  /\ ~dresult.checks.deploymentRunning)
        /\ dresult.message = RunningMessage <=>
              (dresult.checks.configExists /\ dresult.checks.deploymentRunning)
        /\ "suggestions" \in DOMAIN dresult <=>
              dresult.message = FirstLaunchMessage
        /\ "config" \in DOMAIN dresult <=>
              dresult.message # FirstLaunchMessage
        /\ "deployment" \in DOMAIN dresult <=>
              dresult.message = RunningMessage
        /\ dresult.type = "first-launch" => dresult.message = FirstLaunchMessage
        /\ dresult.type = "configured-not-deployed" =>
              dresult.message = ConfiguredMessage
        /\ dresult.type = "running" => dresult.message = RunningMessage
        /\ dresult.type = "error" <=> "errors" \in DOMAIN dresult
        /\ dresult.type = "error" => Len(dresult.errors) >= 1

\* C13 witness: an error state over a running deployment
C13_Witness ==
    /\ Returned
    /\ dresult.type = "error"
    /\ dresult.message = RunningMessage
    /\ "deployment" \in DOMAIN dresult

C15_DetectIdempotent ==
    (dpc = "idle" /\ detects >= 2 /\ dprev.type # "threw") => dresult = dprev

\* C15 witness: two calls have returned the same error state
C15_Witness ==
    /\ dpc = "idle"
    /\ detects = 2
    /\ dresult.type = "error"
    /\ dprev.type = "error"
    /\ Len(dresult.errors) = 3

\* the errors of a state by type
ErrorsOfType(st, t) == { i \in 1..Len(st.errors) : st.errors[i].type = t }

\* C17: with a loaded config that enables OAuth, a running daemon, no
\* container and GOOGLE_CLIENT_ID unset, detect() returns an error state over
\* the configured-not-deployed branch with exactly one missing-env-vars error,
\* which lists GOOGLE_CLIENT_ID, and GOOGLE_CLIENT_SECRET when that is unset.
C17_MissingOAuthVariable ==
    (/\ Returned
     /\ cfgFile.status = "loaded"
     /\ cfgFile.oauth
     /\ dockerUp
     /\ allContainers = {}
     /\ "GOOGLE_CLIENT_ID" \notin envSet) =>
        /\ dresult.type = "error"
        /\ dresult.message = ConfiguredMessage
        /\ Cardinality(ErrorsOfType(dresult, "missing-env-vars")) = 1
        /\ \A i \in ErrorsOfType(dresult, "missing-env-vars") :
              /\ "GOOGLE_CLIENT_ID" \in Range(dresult.errors[i].missing)
              /\ "GOOGLE_CLIENT_SECRET" \notin envSet =>
                    "GOOGLE_CLIENT_SECRET" \in Range(dresult.errors[i].missing)

\* the place of an error type in the order C18 states
ErrorRank(t) ==
    IF t = "docker-not-running" THEN 1
    ELSE IF t = "missing-env-vars" THEN 2
    ELSE IF t = "source-not-found" THEN 3
    ELSE 0

\* C18: the errors of a returned state are in the order docker-not-running,
\* missing-env-vars, source-not-found, each type at most once, whatever the
\* severities.
C18_ErrorOrder ==
    (Returned /\ "errors" \in DOMAIN dresult) =>
        /\ \A i \in 1..Len(dresult.errors) :
              ErrorRank(dresult.errors[i].type) >= 1
        /\ \A i, j \in 1..Len(dresult.errors) :
              i < j => ErrorRank(dresult.errors[i].type)
                          < ErrorRank(dresult.errors[j].type)

\* C18 witness: all three errors were detected
C18_Witness ==
    Returned /\ dresult.type = "error" /\ Len(dresult.errors) = 3
        /\ dresult.errors[3].type = "source-not-found"

\* C19: in every error state the fixes match the errors one to one and in
\* order, each naming its error's type; the fix of docker-not-running is not
\* auto-fixable and the fixes of the other two types are.
C19_FixPerError ==
    (Returned /\ dresult.type = "error") =>
        /\ "fixes" \in DOMAIN dresult
        /\ Len(dresult.fixes) = Len(dresult.errors)
        /\ \A i \in 1..Len(dresult.errors) :
              /\ i <= Len(dresult.fixes)
              /\ dresult.fixes[i].error = dresult.errors[i].type
              /\ dresult.fixes[i].autoFixable <=>
                    dresult.errors[i].type # "docker-not-running"

\* C19 witness: an error state with a docker error first and two more
C19_Witness ==
    /\ Returned
    /\ dresult.type = "error"
    /\ Len(dresult.fixes) = 3
    /\ dresult.fixes[1].error = "docker-not-running"
    /\ dresult.fixes[2].error = "missing-env-vars"

(* ---------------------------------------------------------------------- *)
(* Properties of the environment checks                                    *)
(* ---------------------------------------------------------------------- *)

\* the required set as it is stated: SESSION_SECRET, the two OAuth
\* variables iff OAuth is enabled, DATABASE_URL iff the database is
\* postgresql
StatedRequired(cfg) ==
    {"SESSION_SECRET"}
        \cup (IF cfg.oauth THEN {"GOOGLE_CLIENT_ID", "GOOGLE_CLIENT_SECRET"}
                            ELSE {})
        \cup (IF cfg.database = "postgresql" THEN {"DATABASE_URL"} ELSE {})

\* C16: the detector's env check and the deployment's validation step both
\* require exactly SESSION_SECRET, plus the two OAuth variables iff OAuth is
\* enabled, plus DATABASE_URL iff the database is postgresql: wherever
\* either of them has looked at the variables, it reports as missing
\* exactly the unset variables of that set, and the validation step passes
\* the variables only when none of that set is unset.
C16_RequiredEnvExact ==
    /\ (envProbe.applied /\ envProbe.exists) =>
          /\ Range(envProbe.missing) = StatedRequired(cfgFile) \ envSet
          /\ envProbe.valid = (StatedRequired(cfgFile) \subseteq envSet)
    /\ (venv.result # "none" /\ venv.error # "docker-not-running") =>
          /\ Range(venv.missing) = StatedRequired(cfgFile) \ envSet
          /\ (venv.error = "missing-env")
                = ~(StatedRequired(cfgFile) \subseteq envSet)

(* ---------------------------------------------------------------------- *)
(* Properties of fetchArtifact()                                           *)
(* ---------------------------------------------------------------------- *)

\* the calls the step is stated to make on a provider
StatedCalls(p) ==
    << "validate", "fetch" >>
        \o (IF p.hasPrepare THEN << "prepare" >> ELSE << >>)

\* C20: for each of the Claude, Local and URL providers, the fetch-artifact
\* step calls validate(), then fetch(), then prepare() when the provider has
\* one, in that order, and on success yields an artifact with a path and a
\* type: once the step has ended on a provider, either its source was not
\* there or its download or copy failed, or it made exactly these calls in
\* this order and returned an artifact with a path and a type.
C20_ValidateFetchPrepare ==
    (fpc = "done" /\ provider.kind \in {"claude", "local", "url"}
       /\ fresult.error \notin {"source-not-found", "io"}) =>
        /\ calls = StatedCalls(provider)
        /\ fresult.result = "ok"
        /\ fresult.path # "none"
        /\ fresult.type \in TypesOf(provider.kind)

\* the provider the selection rule names for a config, "none" for an error
StatedProvider(cfg) ==
    IF cfg.provider \in {"claude", "local", "url"} THEN cfg.provider
    ELSE IF cfg.provider \in {"unset", "auto"}
    THEN CASE cfg.source = "claude-url" -> "claude"
           [] cfg.source = "http-url" -> "url"
           [] cfg.source = "local-exists" -> "local"
           [] OTHER -> "none"
    ELSE "none"

\* C21: once createProvider() has answered, the provider is the explicitly
\* configured one (claude, local, url) whatever the source looks like; in
\* auto mode it is Claude for an http(s) source on claude.ai or
\* anthropic.com, URL for any other http(s) source, Local for an existing
\* path; where nothing matches or the name is unknown, the step has ended
\* with an error, no provider was created and no provider method (no
\* download, no copy) was called.
C21_ProviderSelection ==
    fpc # "idle" =>
        IF StatedProvider(fcfg) = "none"
        THEN /\ provider = NoProvider
             /\ fpc = "done"
             /\ fresult.result = "threw"
             /\ fresult.error \in {"undetectable", "unknown-provider"}
             /\ calls = << >>
        ELSE provider.kind = StatedProvider(fcfg)

\* an explicit provider was created for a source that auto mode would have
\* given to another provider
C21_Witness ==
    /\ fcfg.provider = "local"
    /\ fcfg.source = "claude-url"
    /\ provider.kind = "local"
    /\ fpc # "idle"

(* ---------------------------------------------------------------------- *)
(* Further properties of detect()                                          *)
(* ---------------------------------------------------------------------- *)

\* C22: whenever detect() returns a state of the running branch, a
\* container whose name includes the project name exists, and the state's
\* deployment is not null and counts at least one container.
C22_RunningHasContainers ==
    (Returned /\ dresult.message = RunningMessage) =>
        /\ \E c \in allContainers : c.name = "project"
        /\ dresult.deployment.present
        /\ dresult.deployment.containerCount >= 1

\* C26: whenever detect() returns a state of the configured-not-deployed or
\* of the running branch, its config is a loaded configuration and not
\* null, whatever the config file holds, a file that does not load included.
C26_ConfigNeverNull ==
    (Returned /\ dresult.message \in {ConfiguredMessage, RunningMessage}) =>
        dresult.config.status = "loaded"

\* C27: a state detect() returns is the state of one version of the config
\* file: the probes, the branch, the config in the state and the errors all
\* come from one value the file has held, also when the file is rewritten
\* while detect() is in progress.
C27_SingleSnapshot ==
    Returned => \E file \in versions : dresult = SnapshotState(file)

(* ---------------------------------------------------------------------- *)
(* Properties of the dashboard                                             *)
(* ---------------------------------------------------------------------- *)

\* C23: after t was pressed on the error view and the retry has ended, the
\* dashboard runs, detect() has answered with a state, that state is the
\* dashboard's state, and the view on top is the one of its type.
C23_RetryShowsDetectedView ==
    (key = "t" /\ uiPc # "retrying") =>
        /\ uiPc = "shown"
        /\ detected # Threw
        /\ uiState = detected
        /\ TopView(shown) = ViewFor(detected)

\* C24: with a confirmation dialog open, y exits the application, and n, q
\* and escape leave the dashboard running with no confirmation dialog open;
\* the application has exited only after a y on an open dialog.
C24_ExitDialogKeys ==
    /\ (hadDialog /\ key = "y") => uiPc = "exited"
    /\ (hadDialog /\ key \in {"n", "q", "escape"}) =>
          (uiPc # "exited" /\ Dialogs(shown) = 0)
    /\ uiPc = "exited" => (key = "y" /\ hadDialog)

(* ---------------------------------------------------------------------- *)
(* Properties of LocalProvider.detectType()                                *)
(* ---------------------------------------------------------------------- *)

StatedLocalTypes ==
    {"react", "vue", "svelte", "next", "nuxt", "node", "html", "markdown",
     "unknown"}

\* C25 as stated: the type detectType() returns for a source file or
\* directory is one of react, vue, svelte, next, nuxt, node, html, markdown,
\* unknown.
C25_FixedTypes ==
    ltype \notin {"none", "threw"} => ltype \in StatedLocalTypes

\* C25 amended: for every source file, and every directory whose
\* package.json is absent or parses, detectType() returns one of react, vue,
\* svelte, next, nuxt, node, html, markdown, javascript, typescript,
\* unknown, where javascript and typescript are the answers for .js and .ts
\* files; it raises for a missing source and for a package.json that does
\* not parse.
C25_FixedTypesWithScripts ==
    ltype # "none" =>
        /\ ltype = "threw" <=>
              (lsource.kind = "missing" \/ lsource.pkg = "invalid")
        /\ ltype # "threw" =>
              ltype \in StatedLocalTypes \cup {"javascript", "typescript"}
        /\ ltype = "javascript" <=>
              (lsource.kind = "file" /\ ToLowerCase(lsource.ext) = ".js")
        /\ ltype = "typescript" <=>
              (lsource.kind = "file" /\ ToLowerCase(lsource.ext) = ".ts")

\* a .ts file was classified
C25_Witness ==
    lsource.kind = "file" /\ lsource.ext = ".ts" /\ ltype = "typescript"

(* ---------------------------------------------------------------------- *)
(* Properties of the setup wizard                                          *)
(* ---------------------------------------------------------------------- *)

\* C28: the server port of the config the wizard has generated is an
\* integer between 1 and 65535, whatever was typed at the port prompt.
C28_PortInRange ==
    port.written => port.value \in 1..MaxPort

(* ---------------------------------------------------------------------- *)
(* Properties of run() with the providers                                  *)
(* ---------------------------------------------------------------------- *)

\* the provider the run works with is a Claude or a URL provider
ClaudeOrURL == CreateProvider(fcfg) \in {"claude", "url"}

C30_StopEndsAutoCommits ==
    /\ Cardinality(timers) <= 1
    /\ halted => timers = {} /\ lateCommits = 0

====
